---------------------------- MODULE Spec2Model ----------------------------
(***************************************************************************)
(* A model of cmd/zfs_util/zfs_util.c: the disk-arbitration helper          *)
(* zfs.util.  Three programs live in the file:                              *)
(*   - main(): the action dispatcher (probe / get-uuid / set-uuid / mount / *)
(*     unmount), specification Spec;                                        *)
(*   - zpool_read_cachefile() -> zpool_import_by_guid() -> do_import(): the *)
(*     cache-driven pool import, specification SpecCache;                   *)
(*   - zfs_probe(): the label probe with its wait for settled disks, which  *)
(*     the file keeps under #if 0 and main() does not call, specification   *)
(*     SpecProbe.                                                           *)
(* Strings are sequences of one-character strings; the C NUL byte is NUL.   *)
(***************************************************************************)
EXTENDS Integers, Sequences, FiniteSets, TLC

VARIABLES
    \* ---- main() ----
    argv,         \* the argument vector, program name included
    pc,           \* position of main(): "entry", "stat", "scan", "switch",
                  \* "probe_attr", "uuid_attr", "out", "exited"
    what,         \* char what
    devname,      \* char *devname, after normalization
    blockdevice,  \* char blockdevice[]
    statfs,       \* the snapshot getmntinfo() returned
    num,          \* int num
    i,            \* int i (0-based, as in the source)
    is_mounted,   \* int is_mounted
    ret,          \* int ret
    retRaw,       \* history: ret currently holds a raw getattrlist() result
    nameBuf,      \* struct attrNameBuf nameBuf
    volname,      \* char volname[MAXPATHLEN] (<<>> while out of scope)
    buf,          \* uint32_t buf[5]
    stdout,       \* the bytes written to file descriptor 1
    exitcode,     \* the value passed to exit(), NoExit before that
    statRc,       \* history: how stat(blockdevice) ended: NoCall before the
                  \* call, then "ok" (0) or "fail" (-1)
    attrRc,       \* history: how getattrlist() ended, likewise
    \* ---- zpool_read_cachefile(), zpool_import_by_guid(), do_import() ----
    cpc,          \* position of the cache reader and of the calls below it
    file,         \* the cache file the reader finds at ZPOOL_CACHE
    fd,           \* int fd: "none", "open", "closed"
    closes,       \* history: number of close(fd) calls
    stSize,       \* stbf.st_size
    cbuf,         \* void *buf: "NULL", "live", "freed"
    readN,        \* history: what read() returned, NoCall before
    nvlist,       \* the unpacked manifest
    nvlistState,  \* "none", "live", "freed"
    nvpair,       \* number of manifest entries the walk has passed
    importrc,     \* int importrc
    imports,      \* history: the guids passed to zpool_import_by_guid
    searchguid,   \* zpool_import_by_guid: its argument
    g_zfs,        \* the global handle: "NULL", "live", "finalized"
    liveHandles,  \* history: libzfs_init() handles not yet libzfs_fini()ed
    liveAllocs,   \* history: nvlists of the importer allocated and not freed
    policy,       \* nvlist_t *policy: "NULL", "live", "freed"
    pools,        \* nvlist_t *pools: "NULL", "live", "freed"
    poolsList,    \* the candidate configs pools holds
    exists,       \* idata.exists
    found_config, \* index into poolsList of found_config, 0 for NULL
    err,          \* int err
    irc,          \* the value zpool_import_by_guid returns
    config,       \* do_import: what it read from its config
    zhp,          \* do_import: zpool_handle_t *zhp: "NULL", "open", "closed"
    dlog,         \* do_import: what its calls returned, its zpool_close()s
    policyRc,     \* the building of the policy: "nocall", "ok", "fail"
    libcalls,     \* history: the library calls the current call of
                  \* zpool_import_by_guid made with g_zfs, in order
    \* ---- zfs_probe() ----
    ppc,          \* position of zfs_probe(): "idle", "entry", "loop",
                  \* "sleep", "after", "probe", "returned"
    loaded,       \* whether system(IS_INVARIANT_DISKS_LOADED_CMD) == 0:
                  \* NoCall before the call, then "yes" or "no"
    probe_i,      \* zfs_probe: int i
    probe_ret,    \* zfs_probe: int ret
    polls,        \* history: number of stat(INVARIANT_DISKS_IDLE_FILE) calls
    sleeps,       \* history: number of sleep(1) calls
    found         \* history: a stat() of the idle file has succeeded

mainVars == <<argv, pc, what, devname, blockdevice, statfs, num, i,
              is_mounted, ret, retRaw, nameBuf, volname, buf, stdout,
              exitcode, statRc, attrRc>>

cacheVars == <<cpc, file, fd, closes, stSize, cbuf, readN, nvlist,
               nvlistState, nvpair, importrc, imports, searchguid, g_zfs,
               liveHandles, liveAllocs, policy, pools, poolsList, exists,
               found_config, err, irc, config, zhp, dlog,
               policyRc, libcalls>>

probeVars == <<ppc, loaded, probe_i, probe_ret, polls, sleeps, found>>

vars == <<mainVars, cacheVars, probeVars>>

(***************************************************************************)
(* Host constants used by main()                                           *)
(***************************************************************************)
\* <sys/loadable_fs.h>: the FSUR_* results handed to exit()
FSUR_RECOGNIZED == -1
FSUR_UNRECOGNIZED == -2
FSUR_IO_SUCCESS == -3
FSUR_IO_FAIL == -4
FSUR_INVAL == -6

\* the action letters
FSUC_PROBE == "p"
FSUC_MOUNT == "m"
FSUC_UNMOUNT == "u"
FSUC_GETUUID == "k"
FSUC_SETUUID == "s"

NUL == "NUL"
NoExit == "none"
NoCall == "nocall"
Indeterminate == -1

MAXPATHLEN == 1024
\* sizeof (uint32_t), sizeof (attrreference_t)
SizeofU32 == 4
SizeofAttrRef == 8
\* offsetof (struct attrNameBuf, name), sizeof (struct attrNameBuf): packed
OffsetofName == SizeofU32 + SizeofAttrRef
SizeofNameBuf == OffsetofName + MAXPATHLEN

(***************************************************************************)
(* Bounds of the model                                                      *)
(***************************************************************************)
\* longest mount table getmntinfo() returns
MaxMounts == 2
\* most entries in a cache manifest
MaxEntries == 2
\* most candidate configs zpool_search_import() returns
MaxCandidates == 2

(***************************************************************************)
(* Helpers                                                                  *)
(***************************************************************************)
Max(S) == CHOOSE x \in S : \A y \in S : y <= x
Min(a, b) == IF a < b THEN a ELSE b

Zeros(n) == [k \in 1..n |-> NUL]

RECURSIVE BitAnd(_, _)
BitAnd(a, b) ==
    IF a = 0 \/ b = 0 THEN 0
    ELSE (a % 2) * (b % 2) + 2 * BitAnd(a \div 2, b \div 2)

RECURSIVE BitOr(_, _)
BitOr(a, b) ==
    IF a = 0 THEN b
    ELSE IF b = 0 THEN a
    ELSE (IF a % 2 = 1 \/ b % 2 = 1 THEN 1 ELSE 0)
         + 2 * BitOr(a \div 2, b \div 2)

\* A uint32_t is the tuple of its four bytes, most significant first (TLC's
\* integers are narrower than 32 unsigned bits).
U32(b3, b2, b1, b0) == <<b3, b2, b1, b0>>

\* a & b and a | b on uint32_t
And32(a, b) == [k \in 1..4 |-> BitAnd(a[k], b[k])]
Or32(a, b) == [k \in 1..4 |-> BitOr(a[k], b[k])]

\* a >> 16 on uint32_t
Shr16(a) == <<0, 0, a[1], a[2]>>

\* a uint32_t loaded from four bytes in memory order on a little-endian host
LoadLE(m) == <<m[4], m[3], m[2], m[1]>>

\* the four bytes of a uint32_t in network (big-endian) order
BytesBE(w) == <<w[1], w[2], w[3], w[4]>>

\* OSSwapBigToHostInt32 on a little-endian host: reverse the four bytes
OSSwapBigToHostInt32(w) == <<w[4], w[3], w[2], w[1]>>

HexDigits == <<"0", "1", "2", "3", "4", "5", "6", "7",
               "8", "9", "A", "B", "C", "D", "E", "F">>

HexByte(x) == <<HexDigits[(x \div 16) + 1], HexDigits[(x % 16) + 1]>>

\* printf("%08X", w), and printf("%04X", w) for w < 2^16
Hex8(w) == HexByte(w[1]) \o HexByte(w[2]) \o HexByte(w[3]) \o HexByte(w[4])
Hex4(w) == HexByte(w[3]) \o HexByte(w[4])

\* the masks of lines 758-781
MaskHigh16 == U32(255, 255, 0, 0)
MaskLow16 == U32(0, 0, 255, 255)
MaskNotVersion == U32(255, 255, 15, 255)
BitsVersion3 == U32(0, 0, 48, 0)
MaskNotVariant == U32(63, 255, 255, 255)
BitsVariant == U32(128, 0, 0, 0)

\* "%08X-%04X-%04X-%04X-%04X%08X" of buf[1..4] (b[2..5] here, 1-based)
FormatUuid(b) ==
    Hex8(b[2]) \o <<"-">>
    \o Hex4(Shr16(And32(b[3], MaskHigh16))) \o <<"-">>
    \o Hex4(And32(b[3], MaskLow16)) \o <<"-">>
    \o Hex4(Shr16(And32(b[4], MaskHigh16))) \o <<"-">>
    \o Hex4(And32(b[4], MaskLow16)) \o Hex8(b[5])

(***************************************************************************)
(* Inputs of main()                                                        *)
(***************************************************************************)
ProgName == <<"z">>

\* argv[1]: the five verbs, an unknown letter, a bare dash, no dash, empty
ActionArgs == { <<"-", "p">>, <<"-", "k">>, <<"-", "s">>, <<"-", "m">>,
                <<"-", "u">>, <<"-", "x">>, <<"-">>, <<"p">>, <<>> }

\* argv[2]: disk, rdisk, /dev/rdisk, rrdisk, a trailing slash
DeviceTokens == { <<"d">>, <<"r", "d">>, <<"/", "r", "d">>,
                  <<"r", "r", "d">>, <<"d", "/">> }

ArgVectors ==
    { <<ProgName>> }
    \cup { <<ProgName, a>> : a \in ActionArgs }
    \cup { <<ProgName, a, t>> : a \in ActionArgs, t \in DeviceTokens }

\* LastSlash looking for the first '/' (strchr)
LastSlash_First(s) ==
    LET idx == { k \in 1..Len(s) : s[k] = "/" }
    IN  IF idx = {} THEN 0 ELSE CHOOSE k \in idx : \A h \in idx : k <= h

\* strrchr(devname, '/'): the index of the last '/', 0 when there is none
LastSlash(s) ==
    LET idx == { k \in 1..Len(s) : s[k] = "/" }
    IN  IF idx = {} THEN 0 ELSE Max(idx)

\* lines 489-494: the device-name normalization
Normalize(t) ==
    LET a == SubSeq(t, LastSlash(t) + 1, Len(t))
    IN  IF a # <<>> /\ a[1] = "r" THEN Tail(a) ELSE a

\* snprintf(blockdevice, sizeof (blockdevice), "/dev/%s", devname); the
\* tokens of the model are far shorter than MAXPATHLEN, nothing is truncated
BlockPath(d) == <<"/", "d", "e", "v", "/">> \o d

\* what the mount table can hold as f_mntfromname, relative to a block path:
\* the path itself, a proper prefix of it, and a path it is a proper prefix of
MountSources(b) == { b, SubSeq(b, 1, Len(b) - 1), b \o <<"s">> }

\* the snapshots getmntinfo() can return; entry k is mounted on volume k
MountTables(b) ==
    UNION { { [k \in 1..n |-> [f_mntfromname |-> f[k], f_mntonname |-> k]]
              : f \in [1..n -> MountSources(b)] } : n \in 0..MaxMounts }

\* SourceMatches comparing only over the length of the entry's source
\* (strncmp(f_mntfromname, blockdevice, strlen(f_mntfromname)) == 0)
SourceMatches_Prefix(e, b) ==
    /\ Len(e.f_mntfromname) <= Len(b)
    /\ e.f_mntfromname = SubSeq(b, 1, Len(e.f_mntfromname))

\* lines 527-529: strlen() equal and strcmp() == 0
SourceMatches(e, b) ==
    Len(e.f_mntfromname) = Len(b) /\ e.f_mntfromname = b


(***************************************************************************)
(* What getattrlist() can hand back                                         *)
(***************************************************************************)
\* the volume names a mount point can carry: "Data" and its prefixes
VolName == <<"D", "a", "t", "a">>
VolNames == { SubSeq(VolName, 1, k) : k \in 0..Len(VolName) }

\* nameBuf after bzero()
ZeroNameBuf ==
    [length |-> 0, attr_dataoffset |-> 0, attr_length |-> 0, name |-> <<>>]

\* the records a successful ATTR_CMN_NAME read can leave in nameBuf: the name
\* bytes sit in name[] (attr_dataoffset = sizeof (attrreference_t)),
\* attr_length counts the terminating NUL or is off by one either way, and
\* the reported total length is anything from below the fixed prefix to above
\* the receive buffer
NameRecords ==
    { [length |-> l, attr_dataoffset |-> SizeofAttrRef, attr_length |-> al,
       name |-> n]
      : n \in VolNames,
        al \in { 0, Len(VolName) + 1, MAXPATHLEN + 1 },
        l \in { 0, OffsetofName - 1, OffsetofName,
                OffsetofName + Len(VolName) + 1,
                SizeofNameBuf, SizeofNameBuf + 1 } }

\* the C string at ((char *)&nameBuf.nameRef) + attr_dataoffset, for an offset
\* that points into name[] (bytes after the name are NUL since the bzero())
NameString(nb) ==
    LET k == nb.attr_dataoffset - SizeofAttrRef
    IN  IF k >= 0 /\ k <= Len(nb.name)
        THEN SubSeq(nb.name, k + 1, Len(nb.name))
        ELSE <<>>

\* snprintf(dst, n, "%s", src) into a zeroed dst of `size` bytes, for a src
\* shorter than size: at most n - 1 bytes of src, then NUL
Snprintf(size, n, src) ==
    LET c == IF n = 0 THEN 0 ELSE Min(Len(src), n - 1)
    IN  SubSeq(src, 1, c) \o Zeros(size - c)

\* ProbeLengthOK turning away a record of exactly the fixed prefix
ProbeLengthOK_Strict(nb) ==
    /\ ~(nb.length <= OffsetofName)
    /\ ~(nb.length > SizeofNameBuf)

\* ProbeLengthOK without the overflow check of lines 583-587
ProbeLengthOK_NoUpper(nb) == ~(nb.length < OffsetofName)

\* lines 578-587: the two length checks of PROBE
ProbeLengthOK(nb) ==
    /\ ~(nb.length < OffsetofName)
    /\ ~(nb.length > SizeofNameBuf)

\* host-order UUID words the volume can carry in the version position
\* (offered to the tool in network byte order): every version nibble with
\* all other bits clear and with all other bits set, and 0x11223344
VersionWords ==
    { U32(0, 0, 16 * n, 0) : n \in 0..15 }
    \cup { U32(255, 255, 16 * n + 15, 255) : n \in 0..15 }
    \cup { U32(17, 34, 51, 68) }
\* and in the variant position: every value of the top two bits with all
\* other bits clear and with all other bits set
VariantWords ==
    { U32(64 * v, 0, 0, 0) : v \in 0..3 }
    \cup { U32(64 * v + 63, 255, 255, 255) : v \in 0..3 }
\* 0xAABBCCDD, 0xDEADBEEF
W1 == U32(170, 187, 204, 221)
W4 == U32(222, 173, 190, 239)

ZeroWord == U32(0, 0, 0, 0)
ZeroBuf == <<0, ZeroWord, ZeroWord, ZeroWord, ZeroWord>>

\* buf after a successful ATTR_VOL_UUID read: the byte count, then the UUID's
\* sixteen bytes in network order as the host loads them
UuidBuffers ==
    { << n, LoadLE(BytesBE(W1)), LoadLE(BytesBE(w2)), LoadLE(BytesBE(w3)),
         LoadLE(BytesBE(W4)) >>
      : n \in { 4, 5 * SizeofU32 - 1, 5 * SizeofU32 },
        w2 \in VersionWords, w3 \in VariantWords }

\* UuidCountOK comparing with the number of words instead of bytes
UuidCountOK_Words(b) == ~(b[1] < 5)

\* line 731: buf[0] < (5 * sizeof (uint32_t)) rejects
UuidCountOK(b) == ~(b[1] < 5 * SizeofU32)

\* lines 744-747
SwapWords(b) ==
    << b[1], OSSwapBigToHostInt32(b[2]), OSSwapBigToHostInt32(b[3]),
       OSSwapBigToHostInt32(b[4]), OSSwapBigToHostInt32(b[5]) >>

\* VersionOK testing only that the bits of 3 are set
VersionOK_BitsSet(w) == And32(w, BitsVersion3) = BitsVersion3

\* line 758: buf[2] == ((buf[2] & 0xFFFF0FFF) | 0x00003000)
VersionOK(w) == w = Or32(And32(w, MaskNotVersion), BitsVersion3)

\* line 763: buf[3] == ((buf[3] & 0x3FFFFFFF) | 0x80000000)
VariantOK(w) == w = Or32(And32(w, MaskNotVariant), BitsVariant)

(***************************************************************************)
(* main()                                                                  *)
(***************************************************************************)
MainInit ==
    /\ argv \in ArgVectors
    /\ pc = "entry"
    /\ what = NUL
    /\ devname = <<>>
    /\ blockdevice = <<>>
    /\ statfs = <<>>
    /\ num = Indeterminate
    /\ i = Indeterminate
    /\ is_mounted = FALSE
    /\ ret = FSUR_INVAL
    /\ retRaw = FALSE
    /\ nameBuf = ZeroNameBuf
    /\ volname = <<>>
    /\ buf = ZeroBuf
    /\ stdout = <<>>
    /\ exitcode = NoExit
    /\ statRc = NoCall
    /\ attrRc = NoCall

\* the main() variables of a process that only runs the cache reader
MainIdle ==
    /\ argv = <<ProgName>>
    /\ pc = "idle"
    /\ what = NUL
    /\ devname = <<>>
    /\ blockdevice = <<>>
    /\ statfs = <<>>
    /\ num = Indeterminate
    /\ i = Indeterminate
    /\ is_mounted = FALSE
    /\ ret = FSUR_INVAL
    /\ retRaw = FALSE
    /\ nameBuf = ZeroNameBuf
    /\ volname = <<>>
    /\ buf = ZeroBuf
    /\ stdout = <<>>
    /\ exitcode = NoExit
    /\ statRc = NoCall
    /\ attrRc = NoCall

\* argc after "argc--", and argv[0], argv[1] after "argv++"
Argc == Len(argv) - 1
ActionArg == argv[2]
DeviceArg == argv[3]

\* line 481: argc < 2 || argv[0][0] != '-'
BadArgs ==
    IF Argc < 2 THEN TRUE
    ELSE IF ActionArg = <<>> THEN TRUE
    ELSE ActionArg[1] # "-"

\* lines 477-484: too few arguments or no leading dash: usage(), goto out
ParseArgsFail ==
    /\ pc = "entry"
    /\ BadArgs
    /\ pc' = "out"
    /\ UNCHANGED cacheVars
    /\ UNCHANGED probeVars
    /\ UNCHANGED <<argv, what, devname, blockdevice, statfs, num, i,
                   is_mounted, ret, retRaw, nameBuf, volname, buf, stdout,
                   exitcode, statRc, attrRc>>

\* lines 486-506: the action letter and the device paths
ParseArgs ==
    /\ pc = "entry"
    /\ ~BadArgs
    /\ what' = IF Len(ActionArg) >= 2 THEN ActionArg[2] ELSE NUL
    /\ devname' = Normalize(DeviceArg)
    /\ blockdevice' = BlockPath(Normalize(DeviceArg))
    /\ pc' = "stat"
    /\ UNCHANGED cacheVars
    /\ UNCHANGED probeVars
    /\ UNCHANGED <<argv, statfs, num, i, is_mounted, ret, retRaw, nameBuf,
                   volname, buf, stdout, exitcode, statRc, attrRc>>

\* lines 508-512: stat(blockdevice) fails: goto out
StatFail ==
    /\ pc = "stat"
    /\ pc' = "out"
    /\ statRc' = "fail"
    /\ UNCHANGED cacheVars
    /\ UNCHANGED probeVars
    /\ UNCHANGED <<argv, what, devname, blockdevice, statfs, num, i,
                   is_mounted, ret, retRaw, nameBuf, volname, buf, stdout,
                   exitcode, attrRc>>

\* line 508: stat(blockdevice) succeeds
StatOK ==
    /\ pc = "stat"
    /\ pc' = "scan"
    /\ statRc' = "ok"
    /\ UNCHANGED cacheVars
    /\ UNCHANGED probeVars
    /\ UNCHANGED <<argv, what, devname, blockdevice, statfs, num, i,
                   is_mounted, ret, retRaw, nameBuf, volname, buf, stdout,
                   exitcode, attrRc>>

\* ScanIndex stopping at the last matching entry instead of the first
ScanIndex_Last(tbl, b) ==
    LET hits == { k \in 1..Len(tbl) : SourceMatches(tbl[k], b) }
    IN  IF hits = {} THEN Len(tbl) ELSE Max(hits) - 1

\* lines 526-536: the index the for loop stops at, num when nothing matches
ScanIndex(tbl, b) ==
    LET hits == { k \in 1..Len(tbl) : SourceMatches(tbl[k], b) }
    IN  IF hits = {} THEN Len(tbl)
        ELSE (CHOOSE k \in hits : \A h \in hits : k <= h) - 1

\* lines 517-542: the mount-table scan
MountScan ==
    /\ pc = "scan"
    /\ \E tbl \in MountTables(blockdevice) :
         /\ statfs' = tbl
         /\ num' = Len(tbl)
         /\ IF Len(tbl) <= 0
            THEN UNCHANGED <<i, is_mounted>>
            ELSE /\ i' = ScanIndex(tbl, blockdevice)
                 /\ is_mounted' = (ScanIndex(tbl, blockdevice) < Len(tbl))
    /\ pc' = "switch"
    /\ UNCHANGED cacheVars
    /\ UNCHANGED probeVars
    /\ UNCHANGED <<argv, what, devname, blockdevice, ret, retRaw, nameBuf,
                   volname, buf, stdout, exitcode, statRc, attrRc>>

\* lines 549-553: PROBE of a device that is not mounted
ProbeNotMounted ==
    /\ pc = "switch"
    /\ what = FSUC_PROBE
    /\ ~is_mounted
    /\ ret' = FSUR_UNRECOGNIZED
    /\ retRaw' = FALSE
    /\ pc' = "out"
    /\ UNCHANGED cacheVars
    /\ UNCHANGED probeVars
    /\ UNCHANGED <<argv, what, devname, blockdevice, statfs, num, i,
                   is_mounted, nameBuf, volname, buf, stdout, exitcode,
                   statRc, attrRc>>

\* lines 559-571: clear the buffers and read the name of statfs[i].f_mntonname;
\* ret receives getattrlist()'s own result, 0 or -1
ProbeGetattr ==
    /\ pc = "switch"
    /\ what = FSUC_PROBE
    /\ is_mounted
    /\ volname' = Zeros(MAXPATHLEN)
    /\ \/ /\ ret' = -1
          /\ nameBuf' = ZeroNameBuf
       \/ /\ ret' = 0
          /\ nameBuf' \in NameRecords
    /\ retRaw' = TRUE
    /\ pc' = "probe_attr"
    /\ attrRc' = IF ret' = 0 THEN "ok" ELSE "fail"
    /\ UNCHANGED cacheVars
    /\ UNCHANGED probeVars
    /\ UNCHANGED <<argv, what, devname, blockdevice, statfs, num, i,
                   is_mounted, buf, stdout, exitcode, statRc>>

\* ProbeFinish leaving getattrlist()'s result in ret when the read failed
ProbeFinish_KeepRaw ==
    /\ pc = "probe_attr"
    /\ IF ret # 0
       THEN UNCHANGED <<ret, retRaw, volname, stdout>>
       ELSE IF ~(~(nameBuf.length < OffsetofName)
                 /\ ~(nameBuf.length > SizeofNameBuf))
       THEN /\ ret' = FSUR_UNRECOGNIZED
            /\ retRaw' = FALSE
            /\ UNCHANGED <<volname, stdout>>
       ELSE /\ volname' = Snprintf(MAXPATHLEN, nameBuf.attr_length,
                                   NameString(nameBuf))
            /\ stdout' = stdout \o volname'
            /\ ret' = FSUR_RECOGNIZED
            /\ retRaw' = FALSE
    /\ pc' = "out"
    /\ UNCHANGED cacheVars
    /\ UNCHANGED probeVars
    /\ UNCHANGED <<argv, what, devname, blockdevice, statfs, num, i,
                   is_mounted, nameBuf, buf, exitcode, statRc, attrRc>>

\* lines 572-596: check the result and the lengths, copy the name out and
\* write(1, volname, sizeof (volname))
ProbeFinish ==
    /\ pc = "probe_attr"
    /\ IF ret # 0 \/ ~ProbeLengthOK(nameBuf)
       THEN /\ ret' = FSUR_UNRECOGNIZED
            /\ UNCHANGED <<volname, stdout>>
       ELSE /\ volname' = Snprintf(MAXPATHLEN, nameBuf.attr_length,
                                   NameString(nameBuf))
            /\ stdout' = stdout \o volname'
            /\ ret' = FSUR_RECOGNIZED
    /\ retRaw' = FALSE
    /\ pc' = "out"
    /\ UNCHANGED cacheVars
    /\ UNCHANGED probeVars
    /\ UNCHANGED <<argv, what, devname, blockdevice, statfs, num, i,
                   is_mounted, nameBuf, buf, exitcode, statRc, attrRc>>

\* lines 705-709: GETUUID of a device that is not mounted
GetuuidNotMounted ==
    /\ pc = "switch"
    /\ what = FSUC_GETUUID
    /\ ~is_mounted
    /\ ret' = FSUR_IO_FAIL
    /\ retRaw' = FALSE
    /\ pc' = "out"
    /\ UNCHANGED cacheVars
    /\ UNCHANGED probeVars
    /\ UNCHANGED <<argv, what, devname, blockdevice, statfs, num, i,
                   is_mounted, nameBuf, volname, buf, stdout, exitcode,
                   statRc, attrRc>>

\* lines 714-721: clear buf and read the UUID of statfs[i].f_mntonname
GetuuidGetattr ==
    /\ pc = "switch"
    /\ what = FSUC_GETUUID
    /\ is_mounted
    /\ \/ /\ ret' = -1
          /\ buf' = ZeroBuf
       \/ /\ ret' = 0
          /\ buf' \in UuidBuffers
    /\ retRaw' = TRUE
    /\ pc' = "uuid_attr"
    /\ attrRc' = IF ret' = 0 THEN "ok" ELSE "fail"
    /\ UNCHANGED cacheVars
    /\ UNCHANGED probeVars
    /\ UNCHANGED <<argv, what, devname, blockdevice, statfs, num, i,
                   is_mounted, nameBuf, volname, stdout, exitcode, statRc>>

\* lines 722-784: check the result and the count, swap, validate, print
GetuuidFinish ==
    /\ pc = "uuid_attr"
    /\ IF ret # 0 \/ ~UuidCountOK(buf)
       THEN /\ ret' = FSUR_IO_FAIL
            /\ UNCHANGED <<buf, stdout>>
       ELSE /\ buf' = SwapWords(buf)
            /\ IF VersionOK(buf'[3]) /\ VariantOK(buf'[4])
               THEN /\ stdout' = stdout \o FormatUuid(buf')
                    /\ ret' = FSUR_IO_SUCCESS
               ELSE /\ ret' = FSUR_IO_FAIL
                    /\ UNCHANGED stdout
    /\ retRaw' = FALSE
    /\ pc' = "out"
    /\ UNCHANGED cacheVars
    /\ UNCHANGED probeVars
    /\ UNCHANGED <<argv, what, devname, blockdevice, statfs, num, i,
                   is_mounted, nameBuf, volname, exitcode, statRc, attrRc>>

\* Setuuid without its break: control falls into case FSUC_MOUNT
Setuuid_FallThrough ==
    /\ pc = "switch"
    /\ what = FSUC_SETUUID
    /\ ret' = FSUR_IO_FAIL
    /\ retRaw' = FALSE
    /\ pc' = "out"
    /\ UNCHANGED cacheVars
    /\ UNCHANGED probeVars
    /\ UNCHANGED <<argv, what, devname, blockdevice, statfs, num, i,
                   is_mounted, nameBuf, volname, buf, stdout, exitcode,
                   statRc, attrRc>>

\* lines 785-789
Setuuid ==
    /\ pc = "switch"
    /\ what = FSUC_SETUUID
    /\ ret' = FSUR_INVAL
    /\ retRaw' = FALSE
    /\ pc' = "out"
    /\ UNCHANGED cacheVars
    /\ UNCHANGED probeVars
    /\ UNCHANGED <<argv, what, devname, blockdevice, statfs, num, i,
                   is_mounted, nameBuf, volname, buf, stdout, exitcode,
                   statRc, attrRc>>

\* Mount answering like SETUUID
Mount_Inval ==
    /\ pc = "switch"
    /\ what = FSUC_MOUNT
    /\ ret' = FSUR_INVAL
    /\ retRaw' = FALSE
    /\ pc' = "out"
    /\ UNCHANGED cacheVars
    /\ UNCHANGED probeVars
    /\ UNCHANGED <<argv, what, devname, blockdevice, statfs, num, i,
                   is_mounted, nameBuf, volname, buf, stdout, exitcode,
                   statRc, attrRc>>

\* lines 790-794
Mount ==
    /\ pc = "switch"
    /\ what = FSUC_MOUNT
    /\ ret' = FSUR_IO_FAIL
    /\ retRaw' = FALSE
    /\ pc' = "out"
    /\ UNCHANGED cacheVars
    /\ UNCHANGED probeVars
    /\ UNCHANGED <<argv, what, devname, blockdevice, statfs, num, i,
                   is_mounted, nameBuf, volname, buf, stdout, exitcode,
                   statRc, attrRc>>

\* lines 795-799
Unmount ==
    /\ pc = "switch"
    /\ what = FSUC_UNMOUNT
    /\ ret' = FSUR_IO_FAIL
    /\ retRaw' = FALSE
    /\ pc' = "out"
    /\ UNCHANGED cacheVars
    /\ UNCHANGED probeVars
    /\ UNCHANGED <<argv, what, devname, blockdevice, statfs, num, i,
                   is_mounted, nameBuf, volname, buf, stdout, exitcode,
                   statRc, attrRc>>

\* lines 800-803: any other letter: usage()
DefaultCase ==
    /\ pc = "switch"
    /\ what \notin { FSUC_PROBE, FSUC_GETUUID, FSUC_SETUUID, FSUC_MOUNT,
                     FSUC_UNMOUNT }
    /\ ret' = FSUR_INVAL
    /\ retRaw' = FALSE
    /\ pc' = "out"
    /\ UNCHANGED cacheVars
    /\ UNCHANGED probeVars
    /\ UNCHANGED <<argv, what, devname, blockdevice, statfs, num, i,
                   is_mounted, nameBuf, volname, buf, stdout, exitcode,
                   statRc, attrRc>>

\* lines 805-807: closelog(); exit(ret)
Exit ==
    /\ pc = "out"
    /\ exitcode' = ret
    /\ pc' = "exited"
    /\ UNCHANGED cacheVars
    /\ UNCHANGED probeVars
    /\ UNCHANGED <<argv, what, devname, blockdevice, statfs, num, i,
                   is_mounted, ret, retRaw, nameBuf, volname, buf, stdout,
                   statRc, attrRc>>

MainNext ==
    \/ ParseArgsFail \/ ParseArgs \/ StatFail \/ StatOK \/ MountScan
    \/ ProbeNotMounted \/ ProbeGetattr \/ ProbeFinish
    \/ GetuuidNotMounted \/ GetuuidGetattr \/ GetuuidFinish
    \/ Setuuid \/ Mount \/ Unmount \/ DefaultCase \/ Exit

(***************************************************************************)
(* The cache file and the library, as the cache reader sees them            *)
(***************************************************************************)
NoGuid == "noguid"
Guids == { "G1", "G2" }

\* an entry of the manifest: a nested record (DATA_TYPE_NVLIST) with or
\* without a uint64 pool_guid, or a pair of another type
ManifestEntries ==
    { [type |-> "nvlist", guid |-> g] : g \in Guids \cup { NoGuid } }
    \cup { [type |-> "other", guid |-> NoGuid] }

Manifests == UNION { [1..n -> ManifestEntries] : n \in 0..MaxEntries }

\* the size of the packed image of a manifest, in units: a header and the
\* entries
PackedSize(m) == 1 + Len(m)

NoFile == [present |-> FALSE, size |-> 0, valid |-> FALSE, manifest |-> <<>>]

\* what can be found at ZPOOL_CACHE: nothing, an empty file, a file that
\* does not unpack, the packed image of a manifest
CacheFiles ==
    { NoFile,
      [present |-> TRUE, size |-> 0, valid |-> FALSE, manifest |-> <<>>],
      [present |-> TRUE, size |-> 1, valid |-> FALSE, manifest |-> <<>>] }
    \cup { [present |-> TRUE, size |-> PackedSize(m), valid |-> TRUE,
            manifest |-> m] : m \in Manifests }

PoolStates == { "ACTIVE", "EXPORTED", "DESTROYED" }

\* a candidate config as the filter loop reads it
Candidates == { [pool_state |-> st, pool_guid |-> g]
                : st \in PoolStates, g \in Guids }

CandidateLists == UNION { [1..n -> Candidates] : n \in 0..MaxCandidates }

\* do_import's locals before it has read its config
NoConfig == [version_ok |-> TRUE, state |-> "none", hostid |-> "none"]

\* line 216: int flags = ZFS_IMPORT_NORMAL: none of ANY_HOST, ONLY, ... is set
flags == {}

\* what zpool_get_state() can report of the pool just opened
OpenStates == { "ACTIVE", "UNAVAIL" }

\* do_import before any of its calls: what zpool_import_props(),
\* zpool_open_canfail(), zpool_get_state() and zpool_enable_datasets()
\* returned, and the number of zpool_close() calls
NoLog == [import |-> "none", open |-> "none", state |-> "none",
          enable |-> "none", closes |-> 0]

\* lines 209-219: the locals of zpool_import_by_guid as initialised, and as
\* left behind once it has returned
ImportLocalsReset ==
    /\ policy' = "NULL"
    /\ pools' = "NULL"
    /\ poolsList' = <<>>
    /\ exists' = FALSE
    /\ found_config' = 0
    /\ err' = 0
    /\ config' = NoConfig
    /\ zhp' = "NULL"
    /\ dlog' = NoLog
    /\ policyRc' = NoCall
    /\ libcalls' = <<>>

CacheInit ==
    /\ cpc = "open"
    /\ file \in CacheFiles
    /\ fd = "none"
    /\ closes = 0
    /\ stSize = 0
    /\ cbuf = "NULL"
    /\ readN = NoCall
    /\ nvlist = <<>>
    /\ nvlistState = "none"
    /\ nvpair = 0
    /\ importrc = 0
    /\ imports = <<>>
    /\ searchguid = NoGuid
    /\ g_zfs = "NULL"
    /\ liveHandles = 0
    /\ liveAllocs = 0
    /\ policy = "NULL"
    /\ pools = "NULL"
    /\ poolsList = <<>>
    /\ exists = FALSE
    /\ found_config = 0
    /\ err = 0
    /\ irc = 0
    /\ config = NoConfig
    /\ zhp = "NULL"
    /\ dlog = NoLog
    /\ policyRc = NoCall
    /\ libcalls = <<>>

\* the cache variables of a process that only runs main()
CacheIdle ==
    /\ cpc = "idle"
    /\ file = NoFile
    /\ fd = "none"
    /\ closes = 0
    /\ stSize = 0
    /\ cbuf = "NULL"
    /\ readN = NoCall
    /\ nvlist = <<>>
    /\ nvlistState = "none"
    /\ nvpair = 0
    /\ importrc = 0
    /\ imports = <<>>
    /\ searchguid = NoGuid
    /\ g_zfs = "NULL"
    /\ liveHandles = 0
    /\ liveAllocs = 0
    /\ policy = "NULL"
    /\ pools = "NULL"
    /\ poolsList = <<>>
    /\ exists = FALSE
    /\ found_config = 0
    /\ err = 0
    /\ irc = 0
    /\ config = NoConfig
    /\ zhp = "NULL"
    /\ dlog = NoLog
    /\ policyRc = NoCall
    /\ libcalls = <<>>

readerVars == <<file, fd, closes, stSize, cbuf, readN, nvlist, nvlistState,
                nvpair, importrc, imports>>
importVars == <<searchguid, g_zfs, liveHandles, liveAllocs, policy, pools,
                poolsList, exists, found_config, err, irc, config, zhp, dlog,
                policyRc, libcalls>>

(***************************************************************************)
(* zpool_read_cachefile()                                                  *)
(***************************************************************************)
\* lines 402-404: open() fails: return
CacheOpenFail ==
    /\ cpc = "open"
    /\ cpc' = "returned"
    /\ UNCHANGED <<readerVars, importVars>>
    /\ UNCHANGED mainVars
    /\ UNCHANGED probeVars

\* line 402: open() succeeds
CacheOpen ==
    /\ cpc = "open"
    /\ file.present
    /\ fd' = "open"
    /\ cpc' = "fstat"
    /\ UNCHANGED <<file, closes, stSize, cbuf, readN, nvlist, nvlistState,
                   nvpair, importrc, imports, importVars>>
    /\ UNCHANGED mainVars
    /\ UNCHANGED probeVars

\* lines 406-407: fstat() fails, goto out (stbf is left as it was)
CacheFstatFail ==
    /\ cpc = "fstat"
    /\ cpc' = "out"
    /\ UNCHANGED <<readerVars, importVars>>
    /\ UNCHANGED mainVars
    /\ UNCHANGED probeVars

\* lines 406-407: fstat() succeeds; a size of zero goes to out
CacheFstat ==
    /\ cpc = "fstat"
    /\ stSize' = file.size
    /\ cpc' = IF file.size = 0 THEN "out" ELSE "alloc"
    /\ UNCHANGED <<file, fd, closes, cbuf, readN, nvlist, nvlistState,
                   nvpair, importrc, imports, importVars>>
    /\ UNCHANGED mainVars
    /\ UNCHANGED probeVars

\* lines 409-411: kmem_alloc() returns NULL, goto out
CacheAllocFail ==
    /\ cpc = "alloc"
    /\ cpc' = "out"
    /\ UNCHANGED <<readerVars, importVars>>
    /\ UNCHANGED mainVars
    /\ UNCHANGED probeVars

\* line 409: kmem_alloc() succeeds
CacheAlloc ==
    /\ cpc = "alloc"
    /\ cbuf' = "live"
    /\ cpc' = "read"
    /\ UNCHANGED <<file, fd, closes, stSize, readN, nvlist, nvlistState,
                   nvpair, importrc, imports, importVars>>
    /\ UNCHANGED mainVars
    /\ UNCHANGED probeVars

\* ReadRejected turning away only a failed read()
ReadRejected_OnlyError(n, size) == n < 0

\* line 413: read(fd, buf, st_size) != st_size
ReadRejected(n, size) == n # size

\* lines 413-414: one read(); it returns -1, fewer bytes than asked, or all
CacheRead ==
    /\ cpc = "read"
    /\ \E n \in { -1, stSize - 1, stSize } :
         /\ readN' = n
         /\ cpc' = IF ReadRejected(n, stSize) THEN "out" ELSE "unpack"
    /\ UNCHANGED <<file, fd, closes, stSize, cbuf, nvlist, nvlistState,
                   nvpair, importrc, imports, importVars>>
    /\ UNCHANGED mainVars
    /\ UNCHANGED probeVars

\* lines 416-417: nvlist_unpack() fails (bad image, or no memory), goto out
CacheUnpackFail ==
    /\ cpc = "unpack"
    /\ cpc' = "out"
    /\ UNCHANGED <<readerVars, importVars>>
    /\ UNCHANGED mainVars
    /\ UNCHANGED probeVars

\* lines 416-419: nvlist_unpack() succeeds; nvpair = NULL
CacheUnpack ==
    /\ cpc = "unpack"
    /\ file.valid
    /\ nvlist' = file.manifest
    /\ nvlistState' = "live"
    /\ nvpair' = 0
    /\ cpc' = "walk"
    /\ UNCHANGED <<file, fd, closes, stSize, cbuf, readN, importrc,
                   imports, importVars>>
    /\ UNCHANGED mainVars
    /\ UNCHANGED probeVars

\* lines 421-429: the entry is a nested record carrying a uint64 pool_guid
HasPoolGuid(e) == e.type = "nvlist" /\ e.guid # NoGuid

\* lines 420-422, 428, 437: an entry that is no nested record, or a record
\* without pool_guid: on to the next
WalkSkip ==
    /\ cpc = "walk"
    /\ nvpair < Len(nvlist)
    /\ ~HasPoolGuid(nvlist[nvpair + 1])
    /\ nvpair' = nvpair + 1
    /\ UNCHANGED <<cpc, file, fd, closes, stSize, cbuf, readN, nvlist,
                   nvlistState, importrc, imports, importVars>>
    /\ UNCHANGED mainVars
    /\ UNCHANGED probeVars

\* lines 420-433, 207-219: a record with pool_guid: call
\* zpool_import_by_guid(guid)
WalkImport ==
    /\ cpc = "walk"
    /\ nvpair < Len(nvlist)
    /\ HasPoolGuid(nvlist[nvpair + 1])
    /\ nvpair' = nvpair + 1
    /\ imports' = Append(imports, nvlist[nvpair + 1].guid)
    /\ searchguid' = nvlist[nvpair + 1].guid
    /\ ImportLocalsReset
    /\ cpc' = "i_init"
    /\ UNCHANGED <<file, fd, closes, stSize, cbuf, readN, nvlist,
                   nvlistState, importrc, g_zfs, liveHandles, liveAllocs,
                   irc>>
    /\ UNCHANGED mainVars
    /\ UNCHANGED probeVars

\* lines 420, 438: nvlist_next_nvpair() returns NULL: nvlist_free(nvlist)
WalkEnd ==
    /\ cpc = "walk"
    /\ nvpair = Len(nvlist)
    /\ nvlistState' = "freed"
    /\ cpc' = "out"
    /\ UNCHANGED <<file, fd, closes, stSize, cbuf, readN, nvlist, nvpair,
                   importrc, imports, importVars>>
    /\ UNCHANGED mainVars
    /\ UNCHANGED probeVars

\* lines 440-445: out: close(fd); if (buf) kmem_free(buf, st_size)
CacheOut ==
    /\ cpc = "out"
    /\ fd' = "closed"
    /\ closes' = closes + 1
    /\ cbuf' = IF cbuf # "NULL" THEN "freed" ELSE cbuf
    /\ cpc' = "returned"
    /\ UNCHANGED <<file, stSize, readN, nvlist, nvlistState, nvpair,
                   importrc, imports, importVars>>
    /\ UNCHANGED mainVars
    /\ UNCHANGED probeVars

(***************************************************************************)
(* zpool_import_by_guid()                                                  *)
(***************************************************************************)
\* nvlist_free(p): releases a live list, does nothing for NULL
Freed(p) == IF p = "live" THEN "freed" ELSE p
FreeCount(p) == IF p = "live" THEN 1 ELSE 0

\* lines 226-227: libzfs_init() returns NULL: return (1)
ImportInitFail ==
    /\ cpc = "i_init"
    /\ g_zfs' = "NULL"
    /\ irc' = 1
    /\ cpc' = "i_return"
    /\ UNCHANGED <<readerVars, policyRc, searchguid, liveHandles, liveAllocs,
                   policy, pools, poolsList, exists, found_config, err, config,
                   zhp, dlog, libcalls>>
    /\ UNCHANGED mainVars
    /\ UNCHANGED probeVars

\* line 226: libzfs_init() hands out a handle
ImportInit ==
    /\ cpc = "i_init"
    /\ g_zfs' = "live"
    /\ liveHandles' = liveHandles + 1
    /\ cpc' = "i_policy"
    /\ UNCHANGED <<readerVars, policyRc, searchguid, liveAllocs, policy, pools,
                   poolsList, exists, found_config, err, irc, config, zhp,
                   dlog, libcalls>>
    /\ UNCHANGED mainVars
    /\ UNCHANGED probeVars

\* lines 232-235: nvlist_alloc() fails (policy stays NULL), or one of the two
\* nvlist_add_*() fails (policy is allocated): goto error
ImportPolicyFail ==
    /\ cpc = "i_policy"
    /\ \/ UNCHANGED <<policy, liveAllocs>>
       \/ /\ policy' = "live"
          /\ liveAllocs' = liveAllocs + 1
    /\ policyRc' = "fail"
    /\ cpc' = "i_error"
    /\ UNCHANGED <<readerVars, searchguid, g_zfs, liveHandles, pools,
                   poolsList, exists, found_config, err, irc, config, zhp,
                   dlog, libcalls>>
    /\ UNCHANGED mainVars
    /\ UNCHANGED probeVars

\* lines 232-234: the policy is built
ImportPolicy ==
    /\ cpc = "i_policy"
    /\ policy' = "live"
    /\ liveAllocs' = liveAllocs + 1
    /\ policyRc' = "ok"
    /\ cpc' = "i_priv"
    /\ UNCHANGED <<readerVars, searchguid, g_zfs, liveHandles, pools,
                   poolsList, exists, found_config, err, irc, config, zhp,
                   dlog, libcalls>>
    /\ UNCHANGED mainVars
    /\ UNCHANGED probeVars

\* lines 237-241: !priv_ineffect(PRIV_SYS_CONFIG): nvlist_free(policy);
\* return (1)
ImportNoPriv ==
    /\ cpc = "i_priv"
    /\ liveAllocs' = liveAllocs - FreeCount(policy)
    /\ policy' = Freed(policy)
    /\ irc' = 1
    /\ cpc' = "i_return"
    /\ UNCHANGED <<readerVars, policyRc, searchguid, g_zfs, liveHandles, pools,
                   poolsList, exists, found_config, err, config, zhp, dlog,
                   libcalls>>
    /\ UNCHANGED mainVars
    /\ UNCHANGED probeVars

\* line 237: the privilege is in effect
ImportPriv ==
    /\ cpc = "i_priv"
    /\ cpc' = "i_search"
    /\ UNCHANGED <<readerVars, importVars>>
    /\ UNCHANGED mainVars
    /\ UNCHANGED probeVars

\* ImportSearchNone going to the error label after it has freed the policy
ImportSearchNone_GotoError ==
    /\ cpc = "i_search"
    /\ libcalls' = Append(libcalls, [call |-> "search", g_zfs |-> g_zfs])
    /\ exists' \in BOOLEAN
    /\ err' = 1
    /\ liveAllocs' = liveAllocs - FreeCount(policy)
    /\ policy' = Freed(policy)
    /\ cpc' = "i_error"
    /\ UNCHANGED <<readerVars, policyRc, irc, searchguid, g_zfs,
                   liveHandles, pools, poolsList, found_config, config, zhp,
                   dlog>>
    /\ UNCHANGED mainVars
    /\ UNCHANGED probeVars

\* lines 243-260: zpool_search_import() returns NULL, with or without
\* idata.exists: err = 1; nvlist_free(policy); return (1)
ImportSearchNone ==
    /\ cpc = "i_search"
    /\ libcalls' = Append(libcalls, [call |-> "search", g_zfs |-> g_zfs])
    /\ exists' \in BOOLEAN
    /\ err' = 1
    /\ liveAllocs' = liveAllocs - FreeCount(policy)
    /\ policy' = Freed(policy)
    /\ irc' = 1
    /\ cpc' = "i_return"
    /\ UNCHANGED <<readerVars, policyRc, searchguid, g_zfs, liveHandles, pools,
                   poolsList, found_config, config, zhp, dlog>>
    /\ UNCHANGED mainVars
    /\ UNCHANGED probeVars

\* lines 243-260: zpool_search_import() returns a list of candidates
ImportSearch ==
    /\ cpc = "i_search"
    /\ libcalls' = Append(libcalls, [call |-> "search", g_zfs |-> g_zfs])
    /\ poolsList' \in CandidateLists
    /\ pools' = "live"
    /\ liveAllocs' = liveAllocs + 1
    /\ cpc' = "i_filter"
    /\ UNCHANGED <<readerVars, policyRc, searchguid, g_zfs, liveHandles,
                   policy, exists, found_config, err, irc, config, zhp, dlog>>
    /\ UNCHANGED mainVars
    /\ UNCHANGED probeVars

\* FoundConfig without the test that skips DESTROYED candidates
FoundConfig_Destroyed(list, guid) ==
    LET hits == { k \in 1..Len(list) : list[k].pool_guid = guid }
    IN  IF hits = {} THEN 0 ELSE Max(hits)

\* lines 270-292: the config the loop leaves in found_config: the last one
\* that is not DESTROYED and whose guid is searchguid; 0 when there is none
FoundConfig(list, guid) ==
    LET hits == { k \in 1..Len(list) :
                    /\ list[k].pool_state # "DESTROYED"
                    /\ list[k].pool_guid = guid }
    IN  IF hits = {} THEN 0 ELSE Max(hits)

\* lines 267-292: the post-processing loop
ImportFilter ==
    /\ cpc = "i_filter"
    /\ err' = 0
    /\ found_config' = FoundConfig(poolsList, searchguid)
    /\ cpc' = "i_decide"
    /\ UNCHANGED <<readerVars, policyRc, searchguid, g_zfs, liveHandles,
                   liveAllocs, policy, pools, poolsList, exists, irc, config,
                   zhp, dlog, libcalls>>
    /\ UNCHANGED mainVars
    /\ UNCHANGED probeVars

\* lines 298-302: found_config == NULL: err = B_TRUE
ImportNotFound ==
    /\ cpc = "i_decide"
    /\ err = 0
    /\ found_config = 0
    /\ err' = 1
    /\ cpc' = "i_error"
    /\ UNCHANGED <<readerVars, policyRc, searchguid, g_zfs, liveHandles,
                   liveAllocs, policy, pools, poolsList, exists, found_config,
                   irc, config, zhp, dlog, libcalls>>
    /\ UNCHANGED mainVars
    /\ UNCHANGED probeVars

\* lines 312, 141-147: do_import(found_config, NULL, NULL, NULL, flags) is
\* entered and reads state and version (and, further down, hostid) from the
\* config; the version and the hostid are contents of the candidate that
\* nothing has read before
ImportCallDoImport ==
    /\ cpc = "i_decide"
    /\ err = 0
    /\ found_config # 0
    /\ \E v \in BOOLEAN, h \in { "absent", "local", "foreign" } :
         config' = [version_ok |-> v,
                    state |-> poolsList[found_config].pool_state,
                    hostid |-> h]
    /\ cpc' = "d_check"
    /\ UNCHANGED <<readerVars, policyRc, searchguid, g_zfs, liveHandles,
                   liveAllocs, policy, pools, poolsList, exists, found_config,
                   err, irc, zhp, dlog, libcalls>>
    /\ UNCHANGED mainVars
    /\ UNCHANGED probeVars

\* DoImportRefuses letting through a pool whose config has no hostid
DoImportRefuses_AbsentOK(c) ==
    IF ~c.version_ok THEN TRUE
    ELSE IF c.state # "EXPORTED" /\ "ANY_HOST" \notin flags
         THEN c.hostid = "foreign"
    ELSE FALSE

\* lines 148-184 with flags = ZFS_IMPORT_NORMAL: do_import refuses an
\* unsupported version, and a pool that is not EXPORTED whose hostid is
\* absent or is not gethostid() & 0xffffffff
DoImportRefuses(c) ==
    IF ~c.version_ok THEN TRUE
    ELSE IF c.state # "EXPORTED" /\ "ANY_HOST" \notin flags
         THEN c.hostid # "local"
    ELSE FALSE

\* lines 148-184, 312: do_import returns 1 before any library call;
\* err |= 1
DoImportRefuse ==
    /\ cpc = "d_check"
    /\ DoImportRefuses(config)
    /\ err' = 1
    /\ cpc' = "i_error"
    /\ UNCHANGED <<readerVars, policyRc, searchguid, g_zfs, liveHandles,
                   liveAllocs, policy, pools, poolsList, exists, found_config,
                   irc, config, zhp, dlog, libcalls>>
    /\ UNCHANGED mainVars
    /\ UNCHANGED probeVars

\* lines 186-187, 312: zpool_import_props() fails: return (1); err |= 1
DoImportPropsFail ==
    /\ cpc = "d_check"
    /\ ~DoImportRefuses(config)
    /\ libcalls' = Append(libcalls, [call |-> "import", g_zfs |-> g_zfs])
    /\ dlog' = [dlog EXCEPT !.import = "fail"]
    /\ err' = 1
    /\ cpc' = "i_error"
    /\ UNCHANGED <<readerVars, policyRc, searchguid, g_zfs, liveHandles,
                   liveAllocs, policy, pools, poolsList, exists, found_config,
                   irc, config, zhp>>
    /\ UNCHANGED mainVars
    /\ UNCHANGED probeVars

\* line 186: zpool_import_props() succeeds
DoImportProps ==
    /\ cpc = "d_check"
    /\ ~DoImportRefuses(config)
    /\ libcalls' = Append(libcalls, [call |-> "import", g_zfs |-> g_zfs])
    /\ dlog' = [dlog EXCEPT !.import = "ok"]
    /\ cpc' = "d_open"
    /\ UNCHANGED <<readerVars, policyRc, searchguid, g_zfs, liveHandles,
                   liveAllocs, policy, pools, poolsList, exists, found_config,
                   err, irc, config, zhp>>
    /\ UNCHANGED mainVars
    /\ UNCHANGED probeVars

\* lines 192-193, 312: zpool_open_canfail() returns NULL: return (1)
DoImportOpenFail ==
    /\ cpc = "d_open"
    /\ libcalls' = Append(libcalls, [call |-> "open", g_zfs |-> g_zfs])
    /\ dlog' = [dlog EXCEPT !.open = "fail"]
    /\ err' = 1
    /\ cpc' = "i_error"
    /\ UNCHANGED <<readerVars, policyRc, searchguid, g_zfs, liveHandles,
                   liveAllocs, policy, pools, poolsList, exists, found_config,
                   irc, config, zhp>>
    /\ UNCHANGED mainVars
    /\ UNCHANGED probeVars

\* line 192: zpool_open_canfail() returns a pool handle
DoImportOpen ==
    /\ cpc = "d_open"
    /\ libcalls' = Append(libcalls, [call |-> "open", g_zfs |-> g_zfs])
    /\ zhp' = "open"
    /\ dlog' = [dlog EXCEPT !.open = "ok"]
    /\ cpc' = "d_enable"
    /\ UNCHANGED <<readerVars, policyRc, searchguid, g_zfs, liveHandles,
                   liveAllocs, policy, pools, poolsList, exists, found_config,
                   err, irc, config>>
    /\ UNCHANGED mainVars
    /\ UNCHANGED probeVars

\* lines 195-203, 312: the pool is UNAVAIL (or flags has ZFS_IMPORT_ONLY):
\* no dataset is enabled; zpool_close(zhp); return (0)
DoImportUnavail ==
    /\ cpc = "d_enable"
    /\ \E st \in OpenStates :
         /\ st = "UNAVAIL" \/ "ONLY" \in flags
         /\ dlog' = [dlog EXCEPT !.state = st, !.closes = @ + 1]
    /\ zhp' = "closed"
    /\ cpc' = "i_error"
    /\ UNCHANGED <<readerVars, policyRc, searchguid, g_zfs, liveHandles,
                   liveAllocs, policy, pools, poolsList, exists, found_config,
                   err, irc, config, libcalls>>
    /\ UNCHANGED mainVars
    /\ UNCHANGED probeVars

\* DoImportEnable returning 1 with the pool handle still open when
\* zpool_enable_datasets() fails
DoImportEnable_Leak ==
    /\ cpc = "d_enable"
    /\ libcalls' = Append(libcalls, [call |-> "enable", g_zfs |-> g_zfs])
    /\ \E st \in OpenStates, r \in { 0, 1 } :
         /\ st # "UNAVAIL" /\ "ONLY" \notin flags
         /\ err' = r
         /\ dlog' = [dlog EXCEPT !.state = st,
                                 !.enable = IF r = 0 THEN "ok" ELSE "fail",
                                 !.closes = IF r = 0 THEN @ + 1 ELSE @]
         /\ zhp' = IF r = 0 THEN "closed" ELSE zhp
    /\ cpc' = "i_error"
    /\ UNCHANGED <<readerVars, policyRc, searchguid, g_zfs, liveHandles,
                   liveAllocs, policy, pools, poolsList, exists, found_config,
                   irc, config>>
    /\ UNCHANGED mainVars
    /\ UNCHANGED probeVars

\* lines 195-203, 312: the pool is not UNAVAIL and flags has no
\* ZFS_IMPORT_ONLY: zpool_enable_datasets() succeeds (return (0)) or fails
\* (return (1)); either way zpool_close(zhp)
DoImportEnable ==
    /\ cpc = "d_enable"
    /\ libcalls' = Append(libcalls, [call |-> "enable", g_zfs |-> g_zfs])
    /\ \E st \in OpenStates, r \in { 0, 1 } :
         /\ st # "UNAVAIL" /\ "ONLY" \notin flags
         /\ err' = r
         /\ dlog' = [dlog EXCEPT !.state = st,
                                 !.enable = IF r = 0 THEN "ok" ELSE "fail",
                                 !.closes = @ + 1]
    /\ zhp' = "closed"
    /\ cpc' = "i_error"
    /\ UNCHANGED <<readerVars, policyRc, searchguid, g_zfs, liveHandles,
                   liveAllocs, policy, pools, poolsList, exists, found_config,
                   irc, config>>
    /\ UNCHANGED mainVars
    /\ UNCHANGED probeVars

\* lines 317-322: error: nvlist_free(pools); nvlist_free(policy);
\* libzfs_fini(g_zfs); return (err ? 1 : 0)
ImportError ==
    /\ cpc = "i_error"
    /\ pools' = Freed(pools)
    /\ policy' = Freed(policy)
    /\ liveAllocs' = liveAllocs - FreeCount(pools) - FreeCount(policy)
    /\ g_zfs' = "finalized"
    /\ liveHandles' = liveHandles - 1
    /\ irc' = IF err # 0 THEN 1 ELSE 0
    /\ cpc' = "i_return"
    /\ UNCHANGED <<readerVars, policyRc, searchguid, poolsList, exists,
                   found_config, err, config, zhp, dlog, libcalls>>
    /\ UNCHANGED mainVars
    /\ UNCHANGED probeVars

\* ImportReturn leaving the walk when the import failed
ImportReturn_Abort ==
    /\ cpc = "i_return"
    /\ importrc' = irc
    /\ ImportLocalsReset
    /\ nvpair' = IF irc # 0 THEN Len(nvlist) ELSE nvpair
    /\ cpc' = "walk"
    /\ UNCHANGED <<file, fd, closes, stSize, cbuf, readN, nvlist,
                   nvlistState, imports, searchguid, g_zfs,
                   liveHandles, liveAllocs, irc>>
    /\ UNCHANGED mainVars
    /\ UNCHANGED probeVars

\* lines 433-434: back in the walk: importrc = the result, which is only
\* logged; the importer's locals are gone
ImportReturn ==
    /\ cpc = "i_return"
    /\ importrc' = irc
    /\ ImportLocalsReset
    /\ cpc' = "walk"
    /\ UNCHANGED <<file, fd, closes, stSize, cbuf, readN, nvlist,
                   nvlistState, nvpair, imports, searchguid, g_zfs,
                   liveHandles, liveAllocs, irc>>
    /\ UNCHANGED mainVars
    /\ UNCHANGED probeVars

CacheNext ==
    \/ CacheOpenFail \/ CacheOpen \/ CacheFstatFail \/ CacheFstat
    \/ CacheAllocFail \/ CacheAlloc \/ CacheRead
    \/ CacheUnpackFail \/ CacheUnpack
    \/ WalkSkip \/ WalkImport \/ WalkEnd \/ CacheOut
    \/ ImportInitFail \/ ImportInit \/ ImportPolicyFail \/ ImportPolicy
    \/ ImportNoPriv \/ ImportPriv \/ ImportSearchNone \/ ImportSearch
    \/ ImportFilter \/ ImportNotFound \/ ImportCallDoImport
    \/ DoImportRefuse \/ DoImportPropsFail \/ DoImportProps
    \/ DoImportOpenFail \/ DoImportOpen \/ DoImportUnavail \/ DoImportEnable
    \/ ImportError \/ ImportReturn

(***************************************************************************)
(* zfs_probe()                                                             *)
(***************************************************************************)
\* line 70
INVARIANT_DISKS_TIMEOUT_SECONDS == 60

\* lines 332-337: zfs_probe's locals on entry (i is assigned at line 343
\* before it is read)
ProbeInit ==
    /\ ppc = "entry"
    /\ loaded = NoCall
    /\ probe_i = 0
    /\ probe_ret = FSUR_UNRECOGNIZED
    /\ polls = 0
    /\ sleeps = 0
    /\ found = FALSE

\* the zfs_probe variables of a process that does not run it
ProbeIdle ==
    /\ ppc = "idle"
    /\ loaded = NoCall
    /\ probe_i = 0
    /\ probe_ret = FSUR_UNRECOGNIZED
    /\ polls = 0
    /\ sleeps = 0
    /\ found = FALSE

\* lines 341-343: system(IS_INVARIANT_DISKS_LOADED_CMD) == 0: InvariantDisks
\* is loaded; i = 0
ProbeLoaded ==
    /\ ppc = "entry"
    /\ loaded' = "yes"
    /\ probe_i' = 0
    /\ ppc' = "loop"
    /\ UNCHANGED <<probe_ret, polls, sleeps, found>>
    /\ UNCHANGED <<mainVars, cacheVars>>

\* line 341: system() returns something else: no wait
ProbeNotLoaded ==
    /\ ppc = "entry"
    /\ loaded' = "no"
    /\ ppc' = "probe"
    /\ UNCHANGED <<probe_i, probe_ret, polls, sleeps, found>>
    /\ UNCHANGED <<mainVars, cacheVars>>

\* ProbePollFound going on to sleep(1) and i++ instead of break
ProbePollFound_NoBreak ==
    /\ ppc = "loop"
    /\ probe_i # INVARIANT_DISKS_TIMEOUT_SECONDS
    /\ polls' = polls + 1
    /\ found' = TRUE
    /\ ppc' = "sleep"
    /\ UNCHANGED <<loaded, probe_i, probe_ret, sleeps>>
    /\ UNCHANGED <<mainVars, cacheVars>>

\* lines 344-350: i != 60 and stat(INVARIANT_DISKS_IDLE_FILE) == 0: break
ProbePollFound ==
    /\ ppc = "loop"
    /\ probe_i # INVARIANT_DISKS_TIMEOUT_SECONDS
    /\ polls' = polls + 1
    /\ found' = TRUE
    /\ ppc' = "after"
    /\ UNCHANGED <<loaded, probe_i, probe_ret, sleeps>>
    /\ UNCHANGED <<mainVars, cacheVars>>

\* lines 344-345: i != 60 and stat() fails: on to sleep(1)
ProbePollMissing ==
    /\ ppc = "loop"
    /\ probe_i # INVARIANT_DISKS_TIMEOUT_SECONDS
    /\ polls' = polls + 1
    /\ ppc' = "sleep"
    /\ UNCHANGED <<loaded, probe_i, probe_ret, sleeps, found>>
    /\ UNCHANGED <<mainVars, cacheVars>>

\* lines 351-352: sleep(1); i++
ProbeSleep ==
    /\ ppc = "sleep"
    /\ sleeps' = sleeps + 1
    /\ probe_i' = probe_i + 1
    /\ ppc' = "loop"
    /\ UNCHANGED <<loaded, probe_ret, polls, found>>
    /\ UNCHANGED <<mainVars, cacheVars>>

\* line 344: i == 60: the loop ends
ProbeLoopEnd ==
    /\ ppc = "loop"
    /\ probe_i = INVARIANT_DISKS_TIMEOUT_SECONDS
    /\ ppc' = "after"
    /\ UNCHANGED <<loaded, probe_i, probe_ret, polls, sleeps, found>>
    /\ UNCHANGED <<mainVars, cacheVars>>

\* lines 354-359: the message when i == 60; on to the probe
ProbeAfterWait ==
    /\ ppc = "after"
    /\ ppc' = "probe"
    /\ UNCHANGED <<loaded, probe_i, probe_ret, polls, sleeps, found>>
    /\ UNCHANGED <<mainVars, cacheVars>>

\* lines 361-374, 382-384: outpoolguid is NULL, open() fails,
\* zpool_read_label() fails or leaves config NULL: return (ret), still
\* FSUR_UNRECOGNIZED
ProbeUnrecognized ==
    /\ ppc = "probe"
    /\ ppc' = "returned"
    /\ UNCHANGED <<loaded, probe_i, probe_ret, polls, sleeps, found>>
    /\ UNCHANGED <<mainVars, cacheVars>>

\* lines 364-384: a label was read: ret = FSUR_RECOGNIZED; return (ret)
ProbeRecognized ==
    /\ ppc = "probe"
    /\ probe_ret' = FSUR_RECOGNIZED
    /\ ppc' = "returned"
    /\ UNCHANGED <<loaded, probe_i, polls, sleeps, found>>
    /\ UNCHANGED <<mainVars, cacheVars>>

ProbeNext ==
    \/ ProbeLoaded \/ ProbeNotLoaded
    \/ ProbePollFound \/ ProbePollMissing \/ ProbeSleep \/ ProbeLoopEnd
    \/ ProbeAfterWait \/ ProbeUnrecognized \/ ProbeRecognized

(***************************************************************************)
(* The programs                                                             *)
(***************************************************************************)
Init == MainInit /\ CacheIdle /\ ProbeIdle
Next == MainNext
Spec == Init /\ [][Next]_vars

InitCache == MainIdle /\ CacheInit /\ ProbeIdle
SpecCache == InitCache /\ [][CacheNext]_vars

\* the normalizer alone, over every device token of up to MaxTokenLen bytes
\* drawn from '/', 'r' and another byte
MaxTokenLen == 4
Alphabet == { "/", "r", "d" }
Tokens == UNION { [1..n -> Alphabet] : n \in 0..MaxTokenLen }

InitNormalize ==
    /\ argv \in { <<ProgName, <<"-", FSUC_PROBE>>, t>> : t \in Tokens }
    /\ pc = "entry"
    /\ what = NUL
    /\ devname = <<>>
    /\ blockdevice = <<>>
    /\ statfs = <<>>
    /\ num = Indeterminate
    /\ i = Indeterminate
    /\ is_mounted = FALSE
    /\ ret = FSUR_INVAL
    /\ retRaw = FALSE
    /\ nameBuf = ZeroNameBuf
    /\ volname = <<>>
    /\ buf = ZeroBuf
    /\ stdout = <<>>
    /\ exitcode = NoExit
    /\ statRc = NoCall
    /\ attrRc = NoCall
    /\ CacheIdle
    /\ ProbeIdle

NextNormalize == ParseArgs
SpecNormalize == InitNormalize /\ [][NextNormalize]_vars

\* zfs_probe alone; every step of it is a call that returns (system(),
\* stat(), sleep(1), open(), zpool_read_label()), so a step that can be
\* taken is taken
InitProbe == MainIdle /\ CacheIdle /\ ProbeInit
SpecProbe == InitProbe /\ [][ProbeNext]_vars /\ WF_vars(ProbeNext)



(***************************************************************************)
(* Properties of main()                                                    *)
(***************************************************************************)
ExitCodes == { FSUR_RECOGNIZED, FSUR_UNRECOGNIZED, FSUR_IO_SUCCESS,
               FSUR_IO_FAIL, FSUR_INVAL }

Exited == pc = "exited"

\* the block path is the source of some entry of the mount table
InMountTable ==
    \E k \in 1..Len(statfs) : statfs[k].f_mntfromname = blockdevice

\* C1: a PROBE run whose block path exists exits RECOGNIZED exactly when the
\* block path is in the mount table, the attribute read succeeded and the
\* returned length is neither below the fixed prefix nor above the receive
\* buffer; otherwise it exits UNRECOGNIZED with nothing on stdout.
C1_ProbeExit ==
    (Exited /\ what = FSUC_PROBE /\ statRc = "ok") =>
        /\ exitcode = FSUR_RECOGNIZED <=>
               /\ InMountTable
               /\ attrRc = "ok"
               /\ nameBuf.length >= OffsetofName
               /\ nameBuf.length <= SizeofNameBuf
        /\ exitcode # FSUR_RECOGNIZED =>
               exitcode = FSUR_UNRECOGNIZED /\ stdout = <<>>

C1_Witness ==
    /\ Exited /\ what = FSUC_PROBE /\ statRc = "ok"
    /\ exitcode = FSUR_UNRECOGNIZED
    /\ attrRc = "ok"
    /\ nameBuf.length > SizeofNameBuf

VersionIs3(w2) == And32(w2, U32(0, 0, 240, 0)) = U32(0, 0, 48, 0)
VariantIs10(w3) == And32(w3, U32(192, 0, 0, 0)) = U32(128, 0, 0, 0)

\* C3: once GETUUID has read and swapped the four words, it prints a UUID and
\* exits IO_SUCCESS exactly when (w2 & 0x0000F000) = 0x00003000 and
\* (w3 & 0xC0000000) = 0x80000000; otherwise it exits IO_FAIL and prints
\* nothing.  What is printed is the canonical form of those words.
C3_UuidBits ==
    (Exited /\ what = FSUC_GETUUID /\ attrRc = "ok" /\ buf[1] >= 5 * SizeofU32)
    =>  IF VersionIs3(buf[3]) /\ VariantIs10(buf[4])
        THEN exitcode = FSUR_IO_SUCCESS /\ stdout = FormatUuid(buf)
        ELSE exitcode = FSUR_IO_FAIL /\ stdout = <<>>

C3_Witness ==
    /\ Exited /\ what = FSUC_GETUUID /\ attrRc = "ok"
    /\ buf[1] >= 5 * SizeofU32
    /\ And32(buf[3], U32(0, 0, 240, 0)) = U32(0, 0, 64, 0)
    /\ VariantIs10(buf[4])
    /\ exitcode = FSUR_IO_FAIL

\* C4: the value handed to exit() is one of the five FSUR_* codes and is
\* never the raw result of getattrlist() that ret held for a moment.
C4_ExitCodes == Exited => (exitcode \in ExitCodes /\ ~retRaw)

C4_Witness == Exited /\ attrRc = "fail" /\ exitcode \in ExitCodes

\* C5 as stated: -m and -u exit IO_FAIL for every device token, also one
\* whose block path does not exist.
C5_Original ==
    (Exited /\ Len(argv) = 3
       /\ argv[2] \in { <<"-", "m">>, <<"-", "u">> }) =>
        exitcode = FSUR_IO_FAIL /\ stdout = <<>>

\* C5, amended: -m and -u exit IO_FAIL with nothing on stdout for every
\* device token whose block path exists and every mount table; when the
\* block path cannot be stat'ed the run exits INVAL.
C5_MountUnmount ==
    (Exited /\ Len(argv) = 3
       /\ argv[2] \in { <<"-", "m">>, <<"-", "u">> }) =>
        /\ stdout = <<>>
        /\ statRc = "ok" => exitcode = FSUR_IO_FAIL
        /\ statRc = "fail" => exitcode = FSUR_INVAL

C5_Witness ==
    /\ Exited /\ Len(argv) = 3 /\ argv[2] = <<"-", "m">> /\ statRc = "ok"
    /\ is_mounted
    /\ exitcode = FSUR_IO_FAIL

\* C6: SETUUID, an unknown action letter, a missing action or device
\* argument and a block path that cannot be stat'ed all exit INVAL with
\* nothing on stdout, whatever the mount table holds.
C6_Inval ==
    (Exited /\ (\/ BadArgs
                \/ statRc = "fail"
                \/ what = FSUC_SETUUID
                \/ what \notin { FSUC_PROBE, FSUC_GETUUID, FSUC_SETUUID,
                                 FSUC_MOUNT, FSUC_UNMOUNT })) =>
        exitcode = FSUR_INVAL /\ stdout = <<>>

C6_Witness ==
    /\ Exited /\ what = FSUC_SETUUID /\ statRc = "ok" /\ is_mounted
    /\ exitcode = FSUR_INVAL

\* C7 as stated: on PROBE success stdout holds exactly the bytes of the
\* volume name the attribute read returned, and as many bytes as the name
\* is long.
C7_ProbeStdout ==
    (Exited /\ what = FSUC_PROBE /\ exitcode = FSUR_RECOGNIZED) =>
        stdout = NameString(nameBuf)


\* the mount-table scan has run
Scanned ==
    /\ pc \in { "switch", "probe_attr", "uuid_attr", "out", "exited" }
    /\ num # Indeterminate

\* s is a proper prefix of t
ProperPrefix(s, t) == Len(s) < Len(t) /\ s = SubSeq(t, 1, Len(s))

\* C13: after the mount scan, the device is reported mounted iff some entry
\* of the snapshot has a source of the block path's length that equals it
\* byte for byte; a snapshot whose sources are all proper prefixes of the
\* block path, or paths it is a proper prefix of, reports not mounted; and
\* so does a snapshot of no entries (getmntinfo returning 0 or an error).
C13_MountScan ==
    Scanned =>
        /\ is_mounted <=>
               \E k \in 1..num :
                   /\ Len(statfs[k].f_mntfromname) = Len(blockdevice)
                   /\ \A j \in 1..Len(blockdevice) :
                          statfs[k].f_mntfromname[j] = blockdevice[j]
        /\ (\A k \in 1..num :
               \/ ProperPrefix(statfs[k].f_mntfromname, blockdevice)
               \/ ProperPrefix(blockdevice, statfs[k].f_mntfromname))
              => ~is_mounted
        /\ num <= 0 => ~is_mounted

\* a snapshot holding a proper prefix of the block path and a path that
\* extends it
C13_Witness ==
    /\ Scanned
    /\ num = 2
    /\ ProperPrefix(statfs[1].f_mntfromname, blockdevice)
    /\ ProperPrefix(blockdevice, statfs[2].f_mntfromname)
    /\ ~is_mounted
    /\ Exited

\* C14 as stated: for every device token, the short name the normalizer
\* produces contains no '/' and does not begin with 'r'.
C14_Original ==
    pc = "stat" =>
        /\ \A k \in 1..Len(devname) : devname[k] # "/"
        /\ devname = <<>> \/ devname[1] # "r"

\* C14, amended: for every device token T, the short name contains no '/';
\* it is the end of T that follows the last '/' (all of T when there is
\* none) less one leading 'r' when there is one; so it begins with 'r' only
\* when an 'r' was dropped in front of it, that is when that end of T
\* begins with "rr".
C14_ShortName ==
    pc = "stat" =>
        LET T == DeviceArg
            cut == Len(T) - Len(devname)
        IN  /\ \A k \in 1..Len(devname) : devname[k] # "/"
            /\ cut >= 0
            /\ devname = SubSeq(T, cut + 1, Len(T))
            /\ \/ cut = 0
               \/ T[cut] = "/"
               \/ T[cut] = "r" /\ (cut = 1 \/ T[cut - 1] = "/")
            /\ (devname # <<>> /\ devname[1] = "r") =>
                   (cut >= 1 /\ T[cut] = "r")

\* the token d/rr gives the short name r
C14_Witness ==
    /\ pc = "stat"
    /\ DeviceArg = <<"d", "/", "r", "r">>
    /\ devname = <<"r">>
    /\ blockdevice = <<"/", "d", "e", "v", "/", "r">>

\* a PROBE run that got a record from the attribute read has exited
ProbeRead ==
    /\ Exited
    /\ what = FSUC_PROBE
    /\ attrRc = "ok"

\* C16 as stated: a PROBE run whose attribute record reports a length of
\* exactly offsetof (struct attrNameBuf, name) exits UNRECOGNIZED and writes
\* nothing to stdout.
C16_Original ==
    (ProbeRead /\ nameBuf.length = OffsetofName) =>
        /\ exitcode = FSUR_UNRECOGNIZED
        /\ stdout = <<>>

\* C16, amended: a record whose reported length is exactly the fixed prefix
\* is accepted: the run exits RECOGNIZED and writes the name buffer to
\* stdout; a reported length of one byte less is rejected: the run exits
\* UNRECOGNIZED and writes nothing.
C16_PrefixOnly ==
    /\ (ProbeRead /\ nameBuf.length = OffsetofName) =>
           /\ exitcode = FSUR_RECOGNIZED
           /\ Len(stdout) = MAXPATHLEN
    /\ (ProbeRead /\ nameBuf.length = OffsetofName - 1) =>
           /\ exitcode = FSUR_UNRECOGNIZED
           /\ stdout = <<>>

C16_Witness ==
    /\ ProbeRead
    /\ nameBuf.length = OffsetofName
    /\ nameBuf.name = <<>>
    /\ exitcode = FSUR_RECOGNIZED
    /\ stdout = Zeros(MAXPATHLEN)

\* C19: when PROBE or GETUUID has invoked getattrlist, the index i it used
\* is within the snapshot (0 <= i < num), entry i has the block path as its
\* source and no entry before it has; with an empty or failed snapshot, or
\* one without the block path, the read is never invoked.
C19_AttrIndex ==
    /\ attrRc # NoCall =>
           /\ what \in { FSUC_PROBE, FSUC_GETUUID }
           /\ num = Len(statfs)
           /\ 0 <= i /\ i < num
           /\ statfs[i + 1].f_mntfromname = blockdevice
           /\ \A k \in 1..i : statfs[k].f_mntfromname # blockdevice
    /\ (num <= 0 \/ ~InMountTable) => attrRc = NoCall

\* GETUUID read the second entry of a snapshot whose first entry is a proper
\* prefix of the block path
C19_Witness ==
    /\ pc = "uuid_attr"
    /\ what = FSUC_GETUUID
    /\ attrRc = "ok"
    /\ num = 2
    /\ i = 1
    /\ ProperPrefix(statfs[1].f_mntfromname, blockdevice)
    /\ statfs[2].f_mntfromname = blockdevice

(***************************************************************************)
(* Properties of the cache reader and the importer                          *)
(***************************************************************************)
Returned == cpc = "returned"

\* C8 as stated: whenever zpool_import_by_guid returns after libzfs_init
\* succeeded, the handle has been finalized and the policy and the search
\* result are freed; so once the cache reader has returned no handle and no
\* allocation of the importer is live.
C8_Released ==
    /\ (cpc = "i_return" /\ g_zfs # "NULL") =>
           /\ g_zfs = "finalized"
           /\ policy # "live"
           /\ pools # "live"
    /\ Returned => (liveHandles = 0 /\ liveAllocs = 0)

\* the pool_guid values of the entries that are nested records carrying one,
\* in manifest order
RECURSIVE GuidsOf(_)
GuidsOf(m) ==
    IF m = <<>> THEN <<>>
    ELSE (IF Head(m).type = "nvlist" /\ Head(m).guid \in Guids
          THEN <<Head(m).guid>> ELSE <<>>) \o GuidsOf(Tail(m))

\* C9: the guids handed to zpool_import_by_guid are, in order and
\* multiplicity, the pool_guid values of the manifest's nested records that
\* carry one: of the entries passed so far while the walk runs, of the whole
\* manifest once the reader has returned, whatever each import returned.
C9_WalkOrder ==
    /\ nvlistState = "live" => imports = GuidsOf(SubSeq(nvlist, 1, nvpair))
    /\ (Returned /\ nvlistState = "freed") => imports = GuidsOf(file.manifest)

C9_Witness ==
    /\ Returned
    /\ file.manifest = << [type |-> "nvlist", guid |-> "G2"],
                          [type |-> "nvlist", guid |-> "G1"] >>
    /\ imports = <<"G2", "G1">>
    /\ liveHandles = 1
    /\ importrc = 0

\* one of the failures the reader gives up on happened: no file descriptor,
\* fstat failed or the size is zero, no buffer, a read of another length
\* than the size, no manifest unpacked
GaveUp ==
    IF fd = "none" \/ stSize = 0 \/ cbuf = "NULL" THEN TRUE
    ELSE IF readN # stSize THEN TRUE
    ELSE nvlistState = "none"

\* C10: once the reader has returned: if it gave up on one of those failures
\* it attempted no import; if open succeeded the descriptor was closed
\* exactly once (and never otherwise); the buffer is not left allocated and
\* the manifest is not left unfreed.
C10_ReaderCleanup ==
    Returned =>
        /\ GaveUp => imports = <<>>
        /\ IF fd = "none" THEN closes = 0 ELSE fd = "closed" /\ closes = 1
        /\ cbuf \in { "NULL", "freed" }
        /\ nvlistState \in { "none", "freed" }

C10_Witness ==
    /\ Returned
    /\ cbuf = "freed"
    /\ readN = stSize - 1
    /\ closes = 1
    /\ imports = <<>>

\* the positions in libcalls of the calls of one library entry point
Calls(name) == { k \in 1..Len(libcalls) : libcalls[k].call = name }

\* zpool_import_by_guid got past the privilege test and searched
Searched == Calls("search") # {}

\* do_import has been entered in this call
DoImportEntered == config.state # "none"

\* the candidates do_import may be given: not DESTROYED, pool_guid = guid
Importable(list, guid) ==
    { k \in 1..Len(list) : /\ list[k].pool_state # "DESTROYED"
                          /\ list[k].pool_guid = guid }

\* C11: with the privilege held (the search has been made), once
\* zpool_import_by_guid is at its error label or about to return: do_import
\* was entered iff the search gave a candidate set with an entry that is not
\* DESTROYED and has the searched guid, and the config it was given is such
\* an entry; the import call was made at most once; and when the set was
\* empty (no list, with or without exists, or an empty list) or had no such
\* entry, no import call was made and the subroutine returns non-zero.
C11_ImportIffFound ==
    (cpc \in { "i_error", "i_return" } /\ Searched) =>
        /\ DoImportEntered <=>
               (pools # "NULL" /\ Importable(poolsList, searchguid) # {})
        /\ DoImportEntered =>
               /\ found_config \in Importable(poolsList, searchguid)
               /\ config.state = poolsList[found_config].pool_state
        /\ Cardinality(Calls("import")) <= 1
        /\ (pools = "NULL" \/ Importable(poolsList, searchguid) = {}) =>
               /\ Calls("import") = {}
               /\ err # 0
               /\ cpc = "i_return" => irc # 0

\* a DESTROYED candidate with the searched guid follows the one that is
\* imported
C11_Witness ==
    /\ cpc = "i_return"
    /\ Len(poolsList) = 2
    /\ poolsList[1].pool_state = "EXPORTED"
    /\ poolsList[1].pool_guid = searchguid
    /\ poolsList[2].pool_state = "DESTROYED"
    /\ poolsList[2].pool_guid = searchguid
    /\ found_config = 1
    /\ Calls("import") # {}
    /\ irc = 0

\* C12: once do_import has been entered: when the candidate's version is
\* unsupported, or its state is not EXPORTED, ANY_HOST is not set and its
\* hostid is absent or is not the local host identifier masked to 32 bits,
\* zpool_import_props is never called and do_import returns 1 without any
\* library call; a candidate of a supported version that is EXPORTED, or
\* whose hostid is the local one, gets the import call.
C12_Refusal ==
    DoImportEntered =>
        /\ ( \/ ~config.version_ok
             \/ /\ config.state # "EXPORTED"
                /\ "ANY_HOST" \notin flags
                /\ config.hostid \in { "absent", "foreign" } ) =>
               /\ Calls("import") = {}
               /\ cpc # "d_check" => (err = 1 /\ dlog = NoLog)
               /\ cpc = "i_return" => irc = 1
        /\ ( /\ config.version_ok
             /\ config.state = "EXPORTED" \/ config.hostid = "local"
             /\ cpc # "d_check" ) =>
               /\ Cardinality(Calls("import")) = 1
               /\ dlog.import \in { "ok", "fail" }

\* an ACTIVE pool without hostid has been refused
C12_Witness ==
    /\ cpc = "i_return"
    /\ config.version_ok
    /\ config.state = "ACTIVE"
    /\ config.hostid = "absent"
    /\ Calls("search") # {}
    /\ Calls("import") = {}
    /\ irc = 1

\* C15 as stated: when the building of the import policy has failed,
\* zpool_import_by_guid makes no search and no import call, and once it is
\* about to return it has cleaned up (policy freed, handle finalized) and
\* its result is non-zero.
C15_PolicyFailure ==
    policyRc = "fail" =>
        /\ Calls("search") = {}
        /\ Calls("import") = {}
        /\ ~DoImportEntered
        /\ cpc = "i_return" =>
               /\ policy # "live"
               /\ g_zfs = "finalized"
               /\ irc # 0

\* do_import has been entered and has returned to zpool_import_by_guid
DoImportReturned == DoImportEntered /\ cpc \in { "i_error", "i_return" }

\* C17: once do_import has returned: zpool_enable_datasets was called only
\* if the import call and the open succeeded, the reopened pool's state was
\* not UNAVAIL and flags has no ZFS_IMPORT_ONLY; do_import returned 0 only
\* if the import call and the open succeeded and the dataset enable, when
\* attempted, succeeded; and the pool handle was closed exactly once when
\* the open succeeded, never otherwise.
C17_DoImportTail ==
    /\ dlog.closes <= 1
    /\ DoImportReturned =>
           /\ Calls("enable") # {} =>
                  /\ dlog.import = "ok"
                  /\ dlog.open = "ok"
                  /\ dlog.state \in OpenStates \ { "UNAVAIL" }
                  /\ "ONLY" \notin flags
                  /\ dlog.enable \in { "ok", "fail" }
           /\ err = 0 =>
                  /\ dlog.import = "ok"
                  /\ dlog.open = "ok"
                  /\ IF Calls("enable") # {} THEN dlog.enable = "ok"
                                             ELSE dlog.enable = "none"
           /\ IF dlog.open = "ok"
              THEN dlog.closes = 1 /\ zhp = "closed"
              ELSE dlog.closes = 0 /\ zhp = "NULL"

\* the dataset enable failed: do_import closed the pool and returned 1
C17_Witness ==
    /\ cpc = "i_return"
    /\ DoImportEntered
    /\ dlog.import = "ok"
    /\ dlog.open = "ok"
    /\ dlog.enable = "fail"
    /\ dlog.closes = 1
    /\ zhp = "closed"
    /\ irc = 1

\* C18 as stated: when PROBE has copied the volume name out of the record,
\* the reported total length is within the receive buffer, the bytes
\* [attr_dataoffset, attr_dataoffset + attr_length) counted from nameRef lie
\* inside the bytes returned, and attr_length is at most the capacity of
\* volname.
C18_CopyBounds ==
    (ProbeRead /\ exitcode = FSUR_RECOGNIZED) =>
        /\ nameBuf.length <= SizeofNameBuf
        /\ nameBuf.attr_dataoffset >= SizeofAttrRef
        /\ SizeofU32 + nameBuf.attr_dataoffset + nameBuf.attr_length
               <= nameBuf.length
        /\ nameBuf.attr_length <= MAXPATHLEN

\* the places of zpool_import_by_guid and do_import between libzfs_init()
\* and the error label's libzfs_fini()
HandleInUse ==
    cpc \in { "i_policy", "i_priv", "i_search", "i_filter", "i_decide",
              "d_check", "d_open", "d_enable", "i_error" }

\* C20: in every call of a cache walk: the search, the import call, the
\* pool open and the dataset enable were made with a live handle, and the
\* handle is live wherever it can still be used or is about to be
\* finalized (so none is finalized twice); the policy is live where it is
\* attached or about to be freed on an early return, the search result is
\* live while the loop and do_import read its configs, and neither is
\* already freed when the error label frees it.
C20_HandleUse ==
    /\ \A k \in 1..Len(libcalls) : libcalls[k].g_zfs = "live"
    /\ HandleInUse => g_zfs = "live"
    /\ cpc \in { "i_priv", "i_search", "i_filter" } => policy = "live"
    /\ cpc \in { "i_filter", "i_decide", "d_check", "d_open", "d_enable" } =>
           pools = "live"
    /\ cpc = "i_error" => (policy # "freed" /\ pools # "freed")
    /\ liveHandles >= 0
    /\ liveAllocs >= 0

\* the second import of a walk has used the library four times and has
\* been cleaned up
C20_Witness ==
    /\ cpc = "i_return"
    /\ Len(imports) = 2
    /\ Len(libcalls) = 4
    /\ libcalls[4].call = "enable"
    /\ g_zfs = "finalized"
    /\ policy = "freed"
    /\ pools = "freed"

(***************************************************************************)
(* Properties of zfs_probe()                                               *)
(***************************************************************************)
\* zfs_probe is in its wait for the idle file
Waiting == ppc \in { "loop", "sleep", "after" }

\* the counts of the wait: no poll without the indicator; at most 60 polls;
\* one sleep(1) after every poll that missed, so that consecutive polls are
\* one sleep(1) apart; nothing more is polled or slept once the file was
\* found; and a wait that ended without finding it has polled 60 times
WaitCounts ==
    /\ loaded # "yes" => (polls = 0 /\ sleeps = 0 /\ ~found)
    /\ polls <= INVARIANT_DISKS_TIMEOUT_SECONDS
    /\ IF found \/ ppc = "sleep" THEN polls = sleeps + 1 ELSE polls = sleeps
    /\ found => ppc \notin { "loop", "sleep" }
    /\ (loaded = "yes" /\ ~found /\ ppc \in { "after", "probe", "returned" })
          => polls = INVARIANT_DISKS_TIMEOUT_SECONDS

=============================================================================
